---- MODULE Spec2Model ----
(***************************************************************************)
(* The TPIU frame demultiplexer of humility (src/src/tpiu.rs): the framing *)
(* state machine tpiu_next_state, the validators tpiu_check_frame and      *)
(* tpiu_check_byte, the demultiplexer tpiu_process_frame and the ingestion *)
(* driver tpiu_ingest, with the byte source (readnext) and the packet sink *)
(* (callback) as the environment.                                          *)
(***************************************************************************)
EXTENDS Integers, Sequences, FiniteSets, TLC

VARIABLES
    valid,      \* the membership table, as the set of indices that hold true
    state,      \* tpiu_ingest: state (TPIUState)
    ndx,        \* tpiu_ingest: ndx, the fill index of the frame buffer
    frame,      \* tpiu_ingest: frame, 16 slots of (byte, time, offset)
    nvalid,     \* tpiu_ingest: nvalid
    id,         \* tpiu_ingest: id (Option<u8>)
    offs,       \* tpiu_ingest: offs
    pc,         \* where the run of tpiu_ingest is: running, returned or panicked
    nreads,     \* number of calls of readnext made so far
    sink,       \* the calls of callback made so far, in order
    log,        \* the info!/warn! lines written so far, in order
    nulls,      \* number of packets the filter closure dropped (id = NULL)
    nframes,    \* number of frames handed to tpiu_process_frame so far
    mode,       \* byte source: "free" (any items), "frames" (sync, then frames)
                \* or "bytes" (single bytes)
    pending,    \* byte source: the bytes of the item it is in the middle of
    items,      \* byte source: number of items it has started
    built,      \* byte source in mode "frames": the frame descriptions sent so far
    arg,        \* pure-function checks: the arguments drawn
    ret,        \* pure-function checks: the value returned
    lastbyte,   \* tpiu_ingest: datum, the byte read last
    lastcheck,  \* the result of the last call of tpiu_check_frame in tpiu_ingest
    driven,     \* the offsets of the bytes read in a Syncing state or starting one
    trace       \* byte source in mode "bytes": the bytes sent so far, each with
                \* the state and fill index it was read in

vars == <<valid, state, ndx, frame, nvalid, id, offs, pc, nreads, sink, log,
          nulls, nframes, mode, pending, items, built, arg, ret, lastbyte,
          lastcheck, driven, trace>>

----------------------------------------------------------------------------
(* Program constants.                                                      *)

FRAME_LEN == 16

TPIU_ID_NULL == 0

TPIU_FRAME_SYNC == <<255, 255, 255, 127>>

\* SyncAt for a pattern of four bytes 0xFF
SyncAt_AllFF(k) == 255

\* sync[k] with the source's 0-based index
SyncAt(k) == TPIU_FRAME_SYNC[k + 1]

----------------------------------------------------------------------------
(* TPIUFrameHalfWord: a 16-bit value with three bit fields.                *)

\* HalfWordFromPair with the two bytes the other way round
HalfWordFromPair_Swapped(v0, v1) == ((v0 * 256) % 65536) + v1

\* From<(u8, u8)>: (value.1 as u16) << 8 | (value.0 as u16)
HalfWordFromPair(v0, v1) == ((v1 * 256) % 65536) + v0

\* From<u16>
HalfWordFromU16(v) == v

\* bits 15..8
data_or_aux(h) == (h \div 256) % 256

\* bits 7..1
data_or_id(h) == (h \div 2) % 128

\* bit 0
f_control(h) == (h % 2) = 1

----------------------------------------------------------------------------
(* Option<u8>                                                              *)

None == [some |-> FALSE, v |-> 0]

Some(x) == [some |-> TRUE, v |-> x]

----------------------------------------------------------------------------
(* TPIUState and tpiu_next_state.                                          *)

Searching == [tag |-> "Searching", next |-> 0]

SearchingSyncing(k) == [tag |-> "SearchingSyncing", next |-> k]

Framing == [tag |-> "Framing", next |-> 0]

FramingSyncing(k) == [tag |-> "FramingSyncing", next |-> k]

\* the value standing for the panic of tpiu_next_state
IllegalTransition == [tag |-> "panic", next |-> 0]

\* NextStateOf with the last arm's result slipped to the other Syncing variant
NextStateOf_Slip(s, byte) ==
    IF s.tag = "SearchingSyncing" /\ byte # SyncAt(s.next) THEN Searching
    ELSE IF s.tag = "FramingSyncing" /\ byte # SyncAt(s.next) THEN Searching
    ELSE IF s.tag = "SearchingSyncing" /\ s.next + 1 < Len(TPIU_FRAME_SYNC)
        THEN SearchingSyncing(s.next + 1)
    ELSE IF s.tag = "FramingSyncing" /\ s.next + 1 < Len(TPIU_FRAME_SYNC)
        THEN FramingSyncing(s.next + 1)
    ELSE IF s.tag = "SearchingSyncing" THEN Framing
    ELSE IF s.tag = "FramingSyncing" THEN Framing
    ELSE IF s.tag = "Searching" /\ byte # SyncAt(0) THEN Searching
    ELSE IF s.tag = "Searching" THEN SearchingSyncing(1)
    ELSE IF s.tag = "Framing" /\ byte # SyncAt(0) THEN Framing
    ELSE SearchingSyncing(1)

\* the first match of tpiu_next_state: its arms in the source's order
NextStateOf(s, byte) ==
    IF s.tag = "SearchingSyncing" /\ byte # SyncAt(s.next) THEN Searching
    ELSE IF s.tag = "FramingSyncing" /\ byte # SyncAt(s.next) THEN Searching
    ELSE IF s.tag = "SearchingSyncing" /\ s.next + 1 < Len(TPIU_FRAME_SYNC)
        THEN SearchingSyncing(s.next + 1)
    ELSE IF s.tag = "FramingSyncing" /\ s.next + 1 < Len(TPIU_FRAME_SYNC)
        THEN FramingSyncing(s.next + 1)
    ELSE IF s.tag = "SearchingSyncing" THEN Framing
    ELSE IF s.tag = "FramingSyncing" THEN Framing
    ELSE IF s.tag = "Searching" /\ byte # SyncAt(0) THEN Searching
    ELSE IF s.tag = "Searching" THEN SearchingSyncing(1)
    ELSE IF s.tag = "Framing" /\ byte # SyncAt(0) THEN Framing
    ELSE FramingSyncing(1)

\* LegalTransition without the pair (FramingSyncing, Searching)
LegalTransition_NoDerail(s, n) ==
    \/ s.tag = "Searching" /\ n.tag = "Searching"
    \/ s.tag = "Searching" /\ n.tag = "SearchingSyncing"
    \/ s.tag = "SearchingSyncing" /\ n.tag = "Searching"
    \/ s.tag = "SearchingSyncing" /\ n.tag = "Framing"
    \/ s.tag = "SearchingSyncing" /\ n.tag = "SearchingSyncing"
    \/ s.tag = "Framing" /\ n.tag = "Framing"
    \/ s.tag = "Framing" /\ n.tag = "FramingSyncing"
    \/ s.tag = "FramingSyncing" /\ n.tag = "Framing"
    \/ s.tag = "FramingSyncing" /\ n.tag = "FramingSyncing"

\* the second match of tpiu_next_state: the pairs that do not panic
LegalTransition(s, n) ==
    \/ s.tag = "Searching" /\ n.tag = "Searching"
    \/ s.tag = "Searching" /\ n.tag = "SearchingSyncing"
    \/ s.tag = "SearchingSyncing" /\ n.tag = "Searching"
    \/ s.tag = "SearchingSyncing" /\ n.tag = "Framing"
    \/ s.tag = "SearchingSyncing" /\ n.tag = "SearchingSyncing"
    \/ s.tag = "Framing" /\ n.tag = "Framing"
    \/ s.tag = "Framing" /\ n.tag = "FramingSyncing"
    \/ s.tag = "FramingSyncing" /\ n.tag = "Framing"
    \/ s.tag = "FramingSyncing" /\ n.tag = "Searching"
    \/ s.tag = "FramingSyncing" /\ n.tag = "FramingSyncing"

tpiu_next_state(s, byte) ==
    LET n == NextStateOf(s, byte)
    IN  IF LegalTransition(s, n) THEN n ELSE IllegalTransition

\* the info! lines of tpiu_next_state
NextStateLog(s, byte, offset) ==
    IF s.tag = "FramingSyncing" /\ byte # SyncAt(s.next)
        THEN << [msg |-> "derailed", n |-> offset] >>
    ELSE IF s.tag = "SearchingSyncing" /\ byte = SyncAt(s.next)
            /\ ~(s.next + 1 < Len(TPIU_FRAME_SYNC))
        THEN << [msg |-> "sync found", n |-> offset - s.next] >>
    ELSE << >>

----------------------------------------------------------------------------
(* tpiu_check_frame and tpiu_check_byte.  valid[i] is ValidAt(i).          *)

\* ValidAt of a table with every entry true
ValidAt_All(tbl, i) == TRUE

ValidAt(tbl, i) == i \in tbl

RECURSIVE CheckHalfWords(_, _, _, _)
CheckHalfWords(f, tbl, intermixed, i) ==
    IF i >= FRAME_LEN \div 2 THEN TRUE
    ELSE LET base == i * 2
             half == HalfWordFromPair(f[base].b, f[base + 1].b)
         IN  IF f_control(half)
             THEN IF data_or_id(half) = TPIU_ID_NULL
                  THEN CheckHalfWords(f, tbl, intermixed, i + 1)
                  ELSE IF ~ValidAt(tbl, data_or_id(half)) \/ (i > 0 /\ ~intermixed)
                       THEN FALSE
                       ELSE CheckHalfWords(f, tbl, intermixed, i + 1)
             ELSE CheckHalfWords(f, tbl, intermixed, i + 1)

\* tpiu_check_frame that does not look at its intermixed parameter
tpiu_check_frame_AnyIndex(f, tbl, intermixed) == CheckHalfWords(f, tbl, TRUE, 0)

tpiu_check_frame(f, tbl, intermixed) == CheckHalfWords(f, tbl, intermixed, 0)

\* tpiu_check_byte without the look at the membership table
tpiu_check_byte_ControlOnly(byte, tbl) == f_control(HalfWordFromU16(byte))

tpiu_check_byte(byte, tbl) ==
    LET check == HalfWordFromU16(byte)
    IN  f_control(check) /\ ValidAt(tbl, data_or_id(check))

----------------------------------------------------------------------------
(* tpiu_process_frame, with the filter closure of tpiu_ingest as callback. *)

Packet(pid, datum, time, offset) ==
    [id |-> pid, datum |-> datum, time |-> time, offset |-> offset]

\* What a run of tpiu_process_frame has done to the outside so far: the calls
\* of the sink (each with the result the sink gave), the packets the filter
\* dropped, the offsets warned about as orphaned; err: the last callback
\* returned Err.  failAt is the sink's choice: which of this frame's calls of
\* the sink fails (0: none).
NewAccount(failAt) ==
    [calls |-> << >>, nulls |-> 0, orphans |-> << >>, err |-> FALSE,
     failAt |-> failAt]

\* filter without the test for NULL
filter_PassNull(acc, packet) ==
    LET ok == (Len(acc.calls) + 1) # acc.failAt
    IN  [acc EXCEPT !.calls = Append(@, [packet |-> packet, ok |-> ok]),
                    !.err = ~ok]

\* filter that drops the callback's result and returns Ok(())
filter_Swallow(acc, packet) ==
    IF packet.id = TPIU_ID_NULL
    THEN [acc EXCEPT !.nulls = @ + 1]
    ELSE LET ok == (Len(acc.calls) + 1) # acc.failAt
         IN  [acc EXCEPT !.calls = Append(@, [packet |-> packet, ok |-> ok])]

\* the closure filter of tpiu_ingest
filter(acc, packet) ==
    IF packet.id = TPIU_ID_NULL
    THEN [acc EXCEPT !.nulls = @ + 1]
    ELSE LET ok == (Len(acc.calls) + 1) # acc.failAt
         IN  [acc EXCEPT !.calls = Append(@, [packet |-> packet, ok |-> ok]),
                         !.err = ~ok]

FrameResult(res, cur, acc) ==
    [res |-> res, id |-> cur, calls |-> acc.calls, nulls |-> acc.nulls,
     orphans |-> acc.orphans]

\* IdPacket with the two fields the other way round
IdPacket_FieldsSwapped(f, base, half) ==
    Packet(data_or_aux(half) % 256, data_or_id(half) % 256,
           f[base + 1].t, f[base + 1].o)

\* IdPacket with the ID field as the datum
IdPacket_IdAsDatum(f, base, half) ==
    Packet(data_or_id(half) % 256, data_or_id(half) % 256,
           f[base + 1].t, f[base + 1].o)

\* the packet of an ID-change half-word, before the delay is looked at
IdPacket(f, base, half) ==
    Packet(data_or_id(half) % 256, data_or_aux(half) % 256,
           f[base + 1].t, f[base + 1].o)

\* FirstDataPacket without the shift of data_or_id
FirstDataPacket_Unshifted(f, base, half, auxbit, cid) ==
    Packet(cid, IF data_or_id(half) % 2 = 1 THEN data_or_id(half)
                ELSE data_or_id(half) + auxbit,
           f[base].t, f[base].o)

\* FirstDataPacket with the time and offset of the second byte
FirstDataPacket_SecondOffset(f, base, half, auxbit, cid) ==
    Packet(cid, ((data_or_id(half) * 2) % 256) + auxbit, f[base + 1].t, f[base + 1].o)

\* FirstDataPacket without the auxiliary bit
FirstDataPacket_NoAux(f, base, half, auxbit, cid) ==
    Packet(cid, (data_or_id(half) * 2) % 256, f[base].t, f[base].o)

\* the packet of a data half-word's first byte; (half.data_or_id() << 1) as u8
\* has bit 0 clear, so the | auxbit is a sum
FirstDataPacket(f, base, half, auxbit, cid) ==
    Packet(cid, ((data_or_id(half) * 2) % 256) + auxbit, f[base].t, f[base].o)

\* SecondDataPacket with the time and offset of the first byte
SecondDataPacket_FirstOffset(f, base, half, cid) ==
    Packet(cid, data_or_aux(half) % 256, f[base].t, f[base].o)

\* the packet of a data half-word's second byte
SecondDataPacket(f, base, half, cid) ==
    Packet(cid, data_or_aux(half) % 256, f[base + 1].t, f[base + 1].o)

\* auxbit with bit 7 of the final byte masked off
auxbit_Low7(aux, i) == ((data_or_aux(aux) % 128) \div (2 ^ i)) % 2

\* auxbit taken from the top 7 bits of the final byte
auxbit_Top7(aux, i) == (data_or_aux(aux) \div (2 ^ (i + 1))) % 2

\* ((aux.data_or_aux() & (1 << i)) >> i) as u8
auxbit(aux, i) == (data_or_aux(aux) \div (2 ^ i)) % 2

\* the loop of tpiu_process_frame from half-word i on; res is "ok" for Ok(id),
\* "sink_err" for an Err of the callback, "panic_unwrap" for current.unwrap()
\* on None, "panic_unreachable" for the unreachable!() after the loop
RECURSIVE ProcessHalfWords(_, _, _, _)
ProcessHalfWords(f, i, current, acc) ==
    LET high == FRAME_LEN - 1
        aux == HalfWordFromPair(f[high - 1].b, f[high].b)
        max == FRAME_LEN \div 2
    IN  IF i >= max THEN FrameResult("panic_unreachable", 0, acc)
        ELSE
        LET base == i * 2
            half == HalfWordFromPair(f[base].b, f[base + 1].b)
            auxb == auxbit(aux, i)
            last == (i = max - 1)
        IN  IF f_control(half)
            THEN LET delay == auxb # 0
                     packet == IdPacket(f, base, half)
                 IN  IF last THEN FrameResult("ok", packet.id, acc)
                     ELSE LET acc1 ==
                                  IF ~delay THEN filter(acc, packet)
                                  ELSE IF current.some
                                       THEN filter(acc, [packet EXCEPT !.id = current.v])
                                       ELSE [acc EXCEPT !.orphans = Append(@, packet.offset)]
                          IN  IF acc1.err THEN FrameResult("sink_err", 0, acc1)
                              ELSE ProcessHalfWords(f, i + 1, Some(packet.id), acc1)
            ELSE IF ~current.some THEN FrameResult("panic_unwrap", 0, acc)
                 ELSE
                 LET cid == current.v
                     acc1 == filter(acc, FirstDataPacket(f, base, half, auxb, cid))
                 IN  IF acc1.err THEN FrameResult("sink_err", 0, acc1)
                     ELSE IF last THEN FrameResult("ok", cid, acc1)
                     ELSE LET acc2 == filter(acc1, SecondDataPacket(f, base, half, cid))
                          IN  IF acc2.err THEN FrameResult("sink_err", 0, acc2)
                              ELSE ProcessHalfWords(f, i + 1, current, acc2)

tpiu_process_frame(f, cur, failAt) == ProcessHalfWords(f, 0, cur, NewAccount(failAt))

----------------------------------------------------------------------------
(* The byte source (readnext).  It hands out one byte per call; the bytes  *)
(* come in items: a single byte, the sync pattern, or one 16-byte frame.   *)

\* bound: the number of items a stream is made of
MaxItems == 3

\* the time stamp readnext gives with the n-th byte
TimeOf(n) == 3 * n

\* A half-word as the formatter is told to send it: an ID change to a with the
\* byte b (c = 1: b still belongs to the previous ID), or two data bytes a, b.
IdHW(newid, datum, delay) == [k |-> "id", a |-> newid, b |-> datum, c |-> delay]

DataHW(d1, d2) == [k |-> "data", a |-> d1, b |-> d2, c |-> 0]

\* the first byte of a half-word on the wire: ID and control bit, or the data
\* byte with its low bit moved to the auxiliary byte
WireFirst(h) == IF h.k = "id" THEN (2 * h.a) + 1 ELSE h.a - (h.a % 2)

WireAuxBit(h) == IF h.k = "id" THEN h.c ELSE h.a % 2

RECURSIVE WireAux(_, _)
WireAux(d, i) ==
    IF i >= FRAME_LEN \div 2 THEN 0
    ELSE (WireAuxBit(d[i]) * (2 ^ i)) + WireAux(d, i + 1)

\* the 16 bytes of the frame described by d (d[0] .. d[7])
EncodeFrame(d) ==
    [j \in 1..FRAME_LEN |->
        LET i == (j - 1) \div 2
        IN  IF j = FRAME_LEN THEN WireAux(d, 0)
            ELSE IF (j - 1) % 2 = 0 THEN WireFirst(d[i])
            ELSE d[i].b]

\* a frame description: half-word 0, half-word 2 and half-word 7 given, plain
\* data elsewhere
FrameOf(first, mid, last) ==
    [i \in 0..((FRAME_LEN \div 2) - 1) |->
        IF i = 0 THEN first
        ELSE IF i = 2 THEN mid
        ELSE IF i = (FRAME_LEN \div 2) - 1 THEN last
        ELSE DataHW(16 + i, 32 + (2 * i))]

\* the frames the source of Spec may send
SourceFrames ==
    { FrameOf(IdHW(3, 66, 0), DataHW(33, 32), DataHW(49, 0)),
      FrameOf(DataHW(0, 0), DataHW(0, 0), DataHW(0, 0)),
      FrameOf(IdHW(3, 66, 1), DataHW(33, 32), IdHW(1, 0, 1)),
      FrameOf(IdHW(0, 66, 0), IdHW(3, 67, 1), DataHW(49, 0)),
      FrameOf(IdHW(3, 66, 0), IdHW(1, 85, 1), IdHW(0, 0, 0)),
      FrameOf(IdHW(3, 66, 0), IdHW(2, 7, 0), DataHW(48, 0)),
      FrameOf(IdHW(1, 66, 0), IdHW(2, 0, 0), DataHW(48, 0)),
      FrameOf(IdHW(1, 68, 1), DataHW(34, 36), DataHW(50, 0)),
      FrameOf(IdHW(127, 66, 0), DataHW(33, 32), DataHW(49, 0)) }

\* the single bytes the source of Spec may send
SourceBytes == {0, 5, 7, 127, 255}

Items ==
    { << b >> : b \in SourceBytes } \cup { TPIU_FRAME_SYNC }
        \cup { EncodeFrame(d) : d \in SourceFrames }

\* bound: the number of frames that follow the sync pattern in mode "frames"
MaxFrames == 2

\* the half-words 0 of the first frame in mode "frames": an ID change that
\* takes effect at once
FirstHalfWords == { IdHW(3, 66, 0), IdHW(127, 66, 0), IdHW(0, 66, 0) }

\* the half-words 0 of the later frames
LaterHalfWords == FirstHalfWords \cup { DataHW(17, 18), IdHW(1, 68, 1) }

MidHalfWords == { DataHW(33, 32), IdHW(1, 85, 1), IdHW(0, 86, 0) }

LastHalfWords == { DataHW(49, 0), IdHW(3, 0, 1) }

\* the frames that may come next in mode "frames"
WellFormedFrames ==
    { FrameOf(h0, h2, h7) :
        h0 \in (IF built = << >> THEN FirstHalfWords ELSE LaterHalfWords),
        h2 \in MidHalfWords, h7 \in LastHalfWords }

\* bound: the number of bytes of a stream in mode "bytes"
MaxBytes == 8

\* the bytes the source sends in mode "bytes": the bytes of the sync pattern
\* and the ID change to 3
StreamBytes == {7, 127, 255}

\* what readnext may return bytes from: the rest of the item it is in, or a
\* new item (desc: the description of the frame it encodes, if it is one of
\* mode "frames")
SourceOffers ==
    IF pending # << >> THEN { [bytes |-> pending, desc |-> << >>] }
    ELSE IF mode = "free" /\ items < MaxItems
        THEN { [bytes |-> it, desc |-> << >>] : it \in Items }
    ELSE IF mode = "frames" /\ Len(built) < MaxFrames
        THEN { [bytes |-> EncodeFrame(d), desc |-> << d >>] : d \in WellFormedFrames }
    ELSE IF mode = "bytes" /\ items < MaxBytes
        THEN { [bytes |-> << b >>, desc |-> << >>] : b \in StreamBytes }
    ELSE { }

----------------------------------------------------------------------------
(* tpiu_ingest.                                                            *)

\* Scoot that sets the fill index and leaves the entries where they are
Scoot_NoCopy(f, n, check) == [frame |-> f, ndx |-> FRAME_LEN - check]

\* the scoot loop of the rescan: while ndx + check < frame.len()
RECURSIVE Scoot(_, _, _)
Scoot(f, n, check) ==
    IF n + check < FRAME_LEN
    THEN Scoot([f EXCEPT ![n] = f[check + n]], n + 1, check)
    ELSE [frame |-> f, ndx |-> n]

\* Rescan that keeps the whole buffer when its first byte passes the byte check
Rescan_FromZero(f, tbl, check) ==
    IF tpiu_check_byte(f[0].b, tbl) THEN [frame |-> f, ndx |-> FRAME_LEN]
    ELSE [frame |-> f, ndx |-> 0]

\* the rescan of a buffer that failed validation: for check in 1..frame.len()
RECURSIVE Rescan(_, _, _)
Rescan(f, tbl, check) ==
    IF check >= FRAME_LEN THEN [frame |-> f, ndx |-> 0]
    ELSE IF ~tpiu_check_byte(f[check].b, tbl) THEN Rescan(f, tbl, check + 1)
    ELSE Scoot(f, 0, check)

\* the sink's choices for a frame about to be demultiplexed: none of its calls
\* fails (0), or its k-th call does
FailChoices(f, cur) == 0..Len(tpiu_process_frame(f, cur, 0).calls)

\* the locals of tpiu_ingest, and what one iteration adds to the outside
Locals ==
    [pc |-> pc, state |-> state, ndx |-> ndx, frame |-> frame,
     nvalid |-> nvalid, id |-> id,
     calls |-> << >>, nulls |-> 0, nframes |-> 0, log |-> << >>]

OrphanLog(orphans) ==
    [i \in 1..Len(orphans) |-> [msg |-> "orphaned byte", n |-> orphans[i]]]

\* AfterProcess that hands the frame's packets to the sink a second time
AfterProcess_Twice(c, r, lg) ==
    [c EXCEPT !.calls = r.calls \o r.calls, !.nulls = r.nulls, !.nframes = 1,
              !.log = lg \o OrphanLog(r.orphans),
              !.pc = IF r.res = "ok" THEN c.pc ELSE r.res]

\* the locals after a call of tpiu_process_frame returned r
AfterProcess(c, r, lg) ==
    [c EXCEPT !.calls = r.calls, !.nulls = r.nulls, !.nframes = 1,
              !.log = lg \o OrphanLog(r.orphans),
              !.pc = IF r.res = "ok" THEN c.pc ELSE r.res]

\* SearchingArm that consults tpiu_next_state at every fill index
SearchingArm_AnyIndex(datum, time, failAt) ==
    LET o == offs + 1
        n == tpiu_next_state(state, datum)
        lg == IF ndx = 0 THEN NextStateLog(state, datum, o) ELSE << >>
        c == [Locals EXCEPT !.log = lg]
    IN  IF n = IllegalTransition THEN [c EXCEPT !.pc = "panic_illegal"]
        ELSE IF n.tag = "SearchingSyncing" THEN [c EXCEPT !.state = n]
        ELSE IF n.tag # "Searching"
            THEN [c EXCEPT !.state = n, !.pc = "panic_unreachable_arm"]
        ELSE IF ndx = 0 /\ ~tpiu_check_byte(datum, valid) THEN [c EXCEPT !.state = n]
        ELSE IF ndx >= FRAME_LEN THEN [c EXCEPT !.state = n, !.pc = "panic_index"]
        ELSE
        LET f1 == [frame EXCEPT ![ndx] = [b |-> datum, t |-> time, o |-> o]]
            c1 == [c EXCEPT !.state = n, !.frame = f1, !.ndx = ndx + 1]
        IN  IF c1.ndx < FRAME_LEN THEN c1
            ELSE IF tpiu_check_frame(f1, valid, TRUE)
            THEN LET r == tpiu_process_frame(f1, id, failAt)
                     c2 == AfterProcess(c1, r,
                               lg \o << [msg |-> "valid frame", n |-> f1[0].o] >>)
                 IN  IF r.res # "ok" THEN c2
                     ELSE [c2 EXCEPT !.id = Some(r.id), !.state = Framing,
                                     !.nvalid = 1, !.ndx = 0]
            ELSE LET s == Rescan(f1, valid, 1)
                 IN  [c1 EXCEPT !.frame = s.frame, !.ndx = s.ndx]

\* the arm TPIUState::Searching of the loop, the byte (datum, time) read
SearchingArm(datum, time, failAt) ==
    LET o == offs + 1
        n == IF ndx = 0 THEN tpiu_next_state(state, datum) ELSE state
        lg == IF ndx = 0 THEN NextStateLog(state, datum, o) ELSE << >>
        c == [Locals EXCEPT !.log = lg]
    IN  IF n = IllegalTransition THEN [c EXCEPT !.pc = "panic_illegal"]
        ELSE IF n.tag = "SearchingSyncing" THEN [c EXCEPT !.state = n]
        ELSE IF n.tag # "Searching"
            THEN [c EXCEPT !.state = n, !.pc = "panic_unreachable_arm"]
        ELSE IF ndx = 0 /\ ~tpiu_check_byte(datum, valid) THEN [c EXCEPT !.state = n]
        ELSE IF ndx >= FRAME_LEN THEN [c EXCEPT !.state = n, !.pc = "panic_index"]
        ELSE
        LET f1 == [frame EXCEPT ![ndx] = [b |-> datum, t |-> time, o |-> o]]
            c1 == [c EXCEPT !.state = n, !.frame = f1, !.ndx = ndx + 1]
        IN  IF c1.ndx < FRAME_LEN THEN c1
            ELSE IF tpiu_check_frame(f1, valid, TRUE)
            THEN LET r == tpiu_process_frame(f1, id, failAt)
                     c2 == AfterProcess(c1, r,
                               lg \o << [msg |-> "valid frame", n |-> f1[0].o] >>)
                 IN  IF r.res # "ok" THEN c2
                     ELSE [c2 EXCEPT !.id = Some(r.id), !.state = Framing,
                                     !.nvalid = 1, !.ndx = 0]
            ELSE LET s == Rescan(f1, valid, 1)
                 IN  [c1 EXCEPT !.frame = s.frame, !.ndx = s.ndx]

\* the arm TPIUState::Framing of the loop
FramingArm(datum, time, failAt) ==
    LET o == offs + 1
        n == IF ndx = 0 THEN tpiu_next_state(state, datum) ELSE state
        lg == IF ndx = 0 THEN NextStateLog(state, datum, o) ELSE << >>
        c == [Locals EXCEPT !.log = lg]
    IN  IF n = IllegalTransition THEN [c EXCEPT !.pc = "panic_illegal"]
        ELSE IF n.tag = "FramingSyncing" THEN [c EXCEPT !.state = n]
        ELSE IF n.tag # "Framing"
            THEN [c EXCEPT !.state = n, !.pc = "panic_unreachable_arm"]
        ELSE IF ndx >= FRAME_LEN THEN [c EXCEPT !.state = n, !.pc = "panic_index"]
        ELSE
        LET f1 == [frame EXCEPT ![ndx] = [b |-> datum, t |-> time, o |-> o]]
            c1 == [c EXCEPT !.state = n, !.frame = f1, !.ndx = ndx + 1]
        IN  IF c1.ndx < FRAME_LEN THEN c1
            ELSE IF ~tpiu_check_frame(f1, valid, TRUE)
            THEN IF nvalid = 0
                 THEN [c1 EXCEPT !.state = Searching, !.ndx = 0,
                           !.log = lg \o << [msg |-> "two consecutive invalid frames",
                                             n |-> 0] >>]
                 ELSE [c1 EXCEPT !.nvalid = 0, !.ndx = 0,
                           !.log = lg \o << [msg |-> "invalid frame after",
                                             n |-> nvalid] >>]
            ELSE LET r == tpiu_process_frame(f1, id, failAt)
                     c2 == AfterProcess([c1 EXCEPT !.nvalid = nvalid + 1], r, lg)
                 IN  IF r.res # "ok" THEN c2
                     ELSE [c2 EXCEPT !.id = Some(r.id), !.ndx = 0]

\* SyncingArm that also stores the byte in the frame buffer
SyncingArm_Store(datum) ==
    LET n == tpiu_next_state(state, datum)
        c == [Locals EXCEPT !.log = NextStateLog(state, datum, offs + 1)]
    IN  IF n = IllegalTransition THEN [c EXCEPT !.pc = "panic_illegal"]
        ELSE [c EXCEPT !.state = n, !.ndx = ndx + 1,
                       !.frame = [frame EXCEPT ![ndx] =
                                     [b |-> datum, t |-> TimeOf(nreads + 1),
                                      o |-> offs + 1]]]

\* SyncingArm that forgets the Current Channel ID when the attempt is aborted
SyncingArm_ResetId(datum) ==
    LET n == tpiu_next_state(state, datum)
        c == [Locals EXCEPT !.log = NextStateLog(state, datum, offs + 1)]
    IN  IF n = IllegalTransition THEN [c EXCEPT !.pc = "panic_illegal"]
        ELSE IF n.tag = "Searching" THEN [c EXCEPT !.state = n, !.id = None]
        ELSE [c EXCEPT !.state = n]

\* the arm SearchingSyncing | FramingSyncing of the loop
SyncingArm(datum) ==
    LET n == tpiu_next_state(state, datum)
        c == [Locals EXCEPT !.log = NextStateLog(state, datum, offs + 1)]
    IN  IF n = IllegalTransition THEN [c EXCEPT !.pc = "panic_illegal"]
        ELSE [c EXCEPT !.state = n]

\* whether the byte about to be stored completes a frame that passes validation
Completes(datum) ==
    /\ ndx = FRAME_LEN - 1
    /\ tpiu_check_frame([frame EXCEPT ![ndx] = [b |-> datum, t |-> 0, o |-> 0]],
                        valid, TRUE)

\* one call of readnext that returned Some: the source moves on
Read(src) ==
    /\ nreads' = nreads + 1
    /\ offs' = offs + 1
    /\ pending' = Tail(src.bytes)
    /\ items' = IF pending = << >> THEN items + 1 ELSE items
    /\ built' = built \o src.desc
    /\ lastbyte' = Head(src.bytes)
    /\ trace' = IF mode = "bytes"
                THEN Append(trace, [b |-> Head(src.bytes), tag |-> state.tag,
                                    ndx |-> ndx])
                ELSE trace

\* the iteration's effect on the locals and on the outside
Commit(c) ==
    /\ pc' = c.pc
    /\ state' = c.state
    /\ ndx' = c.ndx
    /\ frame' = c.frame
    /\ nvalid' = c.nvalid
    /\ id' = c.id
    /\ sink' = sink \o [i \in 1..Len(c.calls) |->
                          [packet |-> c.calls[i].packet, ok |-> c.calls[i].ok,
                           reads |-> nreads + 1]]
    /\ nulls' = nulls + c.nulls
    /\ nframes' = nframes + c.nframes
    /\ log' = log \o c.log

\* the result of tpiu_check_frame once the buffer f is full, for lastcheck
CheckResult(f) ==
    IF ndx # FRAME_LEN - 1 THEN lastcheck
    ELSE IF tpiu_check_frame(f, valid, TRUE) THEN "valid" ELSE "invalid"

IngestSyncing ==
    /\ pc = "running"
    /\ state.tag \in {"SearchingSyncing", "FramingSyncing"}
    /\ \E src \in SourceOffers :
        /\ Read(src)
        /\ Commit(SyncingArm(Head(src.bytes)))
    /\ driven' = driven \cup {offs + 1}
    /\ UNCHANGED <<valid, mode, arg, ret, lastcheck>>

IngestSearching ==
    /\ pc = "running"
    /\ state.tag = "Searching"
    /\ \E src \in SourceOffers :
        LET byte == Head(src.bytes)
            time == TimeOf(nreads + 1)
            f1 == [frame EXCEPT ![ndx] = [b |-> byte, t |-> time, o |-> offs + 1]]
        IN  \E failAt \in (IF Completes(byte) THEN FailChoices(f1, id) ELSE {0}) :
                /\ Read(src)
                /\ Commit(SearchingArm(byte, time, failAt))
                /\ lastcheck' = CheckResult(f1)
    /\ driven' = IF ndx = 0 /\ lastbyte' = SyncAt(0) THEN driven \cup {offs + 1}
                 ELSE driven
    /\ UNCHANGED <<valid, mode, arg, ret>>

IngestFraming ==
    /\ pc = "running"
    /\ state.tag = "Framing"
    /\ \E src \in SourceOffers :
        LET byte == Head(src.bytes)
            time == TimeOf(nreads + 1)
            f1 == [frame EXCEPT ![ndx] = [b |-> byte, t |-> time, o |-> offs + 1]]
        IN  \E failAt \in (IF Completes(byte) THEN FailChoices(f1, id) ELSE {0}) :
                /\ Read(src)
                /\ Commit(FramingArm(byte, time, failAt))
                /\ lastcheck' = CheckResult(f1)
    /\ driven' = IF ndx = 0 /\ lastbyte' = SyncAt(0) THEN driven \cup {offs + 1}
                 ELSE driven
    /\ UNCHANGED <<valid, mode, arg, ret>>

\* EndOfStream that first hands the buffered bytes to the sink
EndOfStream_Flush ==
    /\ pc = "running"
    /\ pc' = "done"
    /\ nreads' = nreads + 1
    /\ log' = Append(log, [msg |-> "valid TPIU frames", n |-> nvalid])
    /\ sink' = sink \o [i \in 1..ndx |->
                          [packet |-> Packet(IF id.some THEN id.v ELSE 1, frame[i - 1].b,
                                             frame[i - 1].t, frame[i - 1].o),
                           ok |-> TRUE, reads |-> nreads + 1]]
    /\ UNCHANGED <<valid, state, ndx, frame, nvalid, id, offs, nulls,
                   nframes, mode, pending, items, built, arg, ret, lastbyte,
                   lastcheck, driven, trace>>

\* EndOfStream that returns Ok(()) without the summary line
EndOfStream_Silent ==
    /\ pc = "running"
    /\ pc' = "done"
    /\ nreads' = nreads + 1
    /\ UNCHANGED <<valid, state, ndx, frame, nvalid, id, offs, sink, log, nulls,
                   nframes, mode, pending, items, built, arg, ret, lastbyte,
                   lastcheck, driven, trace>>

\* readnext returns Ok(None): break, the summary line, Ok(())
EndOfStream ==
    /\ pc = "running"
    /\ pc' = "done"
    /\ nreads' = nreads + 1
    /\ log' = Append(log, [msg |-> "valid TPIU frames", n |-> nvalid])
    /\ UNCHANGED <<valid, state, ndx, frame, nvalid, id, offs, sink, nulls,
                   nframes, mode, pending, items, built, arg, ret, lastbyte,
                   lastcheck, driven, trace>>

\* SourceFails that first hands the buffered bytes to the sink
SourceFails_Flush ==
    /\ pc = "running"
    /\ pc' = "source_err"
    /\ nreads' = nreads + 1
    /\ sink' = sink \o [i \in 1..ndx |->
                          [packet |-> Packet(IF id.some THEN id.v ELSE 1, frame[i - 1].b,
                                             frame[i - 1].t, frame[i - 1].o),
                           ok |-> TRUE, reads |-> nreads + 1]]
    /\ UNCHANGED <<valid, state, ndx, frame, nvalid, id, offs, log, nulls,
                   nframes, mode, pending, items, built, arg, ret, lastbyte,
                   lastcheck, driven, trace>>

\* readnext returns Err: the ? returns it
SourceFails ==
    /\ pc = "running"
    /\ pc' = "source_err"
    /\ nreads' = nreads + 1
    /\ UNCHANGED <<valid, state, ndx, frame, nvalid, id, offs, sink, log, nulls,
                   nframes, mode, pending, items, built, arg, ret, lastbyte,
                   lastcheck, driven, trace>>

\* the membership table of Spec
SpecValid == {1, 3}

InitLocals ==
    /\ state = Searching
    /\ ndx = 0
    /\ frame = [i \in 0..(FRAME_LEN - 1) |-> [b |-> 0, t |-> 0, o |-> 0]]
    /\ nvalid = 0
    /\ id = None
    /\ offs = 0
    /\ pc = "running"
    /\ nreads = 0
    /\ sink = << >>
    /\ log = << >>
    /\ nulls = 0
    /\ nframes = 0
    /\ lastbyte = 0
    /\ lastcheck = "none"
    /\ driven = { }
    /\ trace = << >>

Init ==
    /\ InitLocals
    /\ valid = SpecValid
    /\ mode = "free"
    /\ pending = << >>
    /\ items = 0
    /\ built = << >>
    /\ arg = << >>
    /\ ret = << >>

Next ==
    \/ IngestSyncing
    \/ IngestSearching
    \/ IngestFraming
    \/ EndOfStream
    \/ SourceFails

Spec == Init /\ [][Next]_vars

----------------------------------------------------------------------------
(* Streams made of the sync pattern and well-formed frames.                *)

\* the membership table of SpecFrames
FramesValid == {1, 3, 127}

InitFrames ==
    /\ InitLocals
    /\ valid = FramesValid
    /\ mode = "frames"
    /\ pending = TPIU_FRAME_SYNC
    /\ items = 1
    /\ built = << >>
    /\ arg = << >>
    /\ ret = << >>

SpecFrames == InitFrames /\ [][Next]_vars

\* the (id, datum) pairs a frame description stands for, from half-word i on,
\* cur the ID in force before it; and the ID in force after it
RECURSIVE FramePairs(_, _, _)
FramePairs(d, i, cur) ==
    IF i >= FRAME_LEN \div 2 THEN [pairs |-> << >>, cur |-> cur]
    ELSE LET h == d[i]
             last == (i = (FRAME_LEN \div 2) - 1)
             own == IF h.k = "id"
                    THEN IF last THEN << >>
                         ELSE << << (IF h.c = 1 THEN cur ELSE h.a), h.b >> >>
                    ELSE IF last THEN << << cur, h.a >> >>
                         ELSE << << cur, h.a >>, << cur, h.b >> >>
             rest == FramePairs(d, i + 1, IF h.k = "id" THEN h.a ELSE cur)
         IN  [pairs |-> own \o rest.pairs, cur |-> rest.cur]

RECURSIVE StreamPairs(_, _, _)
StreamPairs(ds, k, cur) ==
    IF k > Len(ds) THEN << >>
    ELSE LET r == FramePairs(ds[k], 0, cur)
         IN  r.pairs \o StreamPairs(ds, k + 1, r.cur)

NotNull(p) == p[1] # TPIU_ID_NULL

\* the pairs the frames sent so far were built from, those under NULL left out
BuiltPairs == SelectSeq(StreamPairs(built, 1, TPIU_ID_NULL), NotNull)

\* the pairs delivered to the sink
SinkPairs == [i \in 1..Len(sink) |-> << sink[i].packet.id, sink[i].packet.datum >>]

----------------------------------------------------------------------------
(* Streams of single bytes, each recorded with the state it was read in.   *)

InitBytes ==
    /\ InitLocals
    /\ valid = SpecValid
    /\ mode = "bytes"
    /\ pending = << >>
    /\ items = 0
    /\ built = << >>
    /\ arg = << >>
    /\ ret = << >>

SpecBytes == InitBytes /\ [][Next]_vars

----------------------------------------------------------------------------
(* tpiu_check_frame on its own.                                            *)

\* bound: the number of half-words of a drawn frame with the control bit set
MaxControl == 2

\* the first bytes of the half-words drawn: data, ID 0, ID 2, ID 3
CheckFirstBytes == {0, 1, 5, 7}

\* the membership table of SpecCheckFrame
CheckValid == {3}

\* a frame whose half-word i starts with firsts[i]; the second bytes are odd,
\* the final byte has every bit set
FrameOfFirsts(firsts) ==
    [j \in 0..(FRAME_LEN - 1) |->
        [b |-> IF j = FRAME_LEN - 1 THEN 255
               ELSE IF j % 2 = 0 THEN firsts[j \div 2] ELSE 9,
         t |-> TimeOf(j + 1), o |-> j + 1]]

CheckFrames ==
    { FrameOfFirsts(fs) :
        fs \in { g \in [0..((FRAME_LEN \div 2) - 1) -> CheckFirstBytes] :
                   Cardinality({ i \in DOMAIN g : g[i] # 0 }) <= MaxControl } }

InitCheckFrame ==
    /\ InitLocals
    /\ valid = CheckValid
    /\ mode = "free"
    /\ pending = << >>
    /\ items = 0
    /\ built = << >>
    /\ arg \in { [frame |-> f, intermixed |-> m] : f \in CheckFrames, m \in BOOLEAN }
    /\ ret = << >>

CallCheckFrame ==
    /\ ret = << >>
    /\ ret' = << tpiu_check_frame(arg.frame, valid, arg.intermixed) >>
    /\ UNCHANGED <<valid, state, ndx, frame, nvalid, id, offs, pc, nreads, sink,
                   log, nulls, nframes, mode, pending, items, built, arg, lastbyte,
                   lastcheck, driven, trace>>

NextCheckFrame == CallCheckFrame

SpecCheckFrame == InitCheckFrame /\ [][NextCheckFrame]_vars

----------------------------------------------------------------------------
(* TPIUFrameHalfWord on its own: a half-word made of a pair of bytes, and  *)
(* its three fields.                                                       *)

InitHalfWord ==
    /\ InitLocals
    /\ valid = SpecValid
    /\ mode = "free"
    /\ pending = << >>
    /\ items = 0
    /\ built = << >>
    /\ arg \in { [v0 |-> a, v1 |-> b] : a \in 0..255, b \in 0..255 }
    /\ ret = << >>

\* TPIUFrameHalfWord::from((v0, v1)), as tpiu_check_frame and
\* tpiu_process_frame make it of (frame[base].0, frame[base + 1].0), and the
\* three getters
CallHalfWord ==
    /\ ret = << >>
    /\ ret' = << LET half == HalfWordFromPair(arg.v0, arg.v1)
                 IN  [f_control |-> f_control(half),
                      data_or_id |-> data_or_id(half),
                      data_or_aux |-> data_or_aux(half)] >>
    /\ UNCHANGED <<valid, state, ndx, frame, nvalid, id, offs, pc, nreads, sink,
                   log, nulls, nframes, mode, pending, items, built, arg, lastbyte,
                   lastcheck, driven, trace>>

NextHalfWord == CallHalfWord

SpecHalfWord == InitHalfWord /\ [][NextHalfWord]_vars

----------------------------------------------------------------------------
(* tpiu_next_state on its own.                                             *)

\* the values of TPIUState the driver can hold
States ==
    {Searching, Framing}
        \cup { SearchingSyncing(k) : k \in 1..(Len(TPIU_FRAME_SYNC) - 1) }
        \cup { FramingSyncing(k) : k \in 1..(Len(TPIU_FRAME_SYNC) - 1) }

InitNextState ==
    /\ InitLocals
    /\ valid = SpecValid
    /\ mode = "free"
    /\ pending = << >>
    /\ items = 0
    /\ built = << >>
    /\ arg \in { [state |-> s, byte |-> b, offset |-> 9] : s \in States, b \in 0..255 }
    /\ ret = << >>

\* one call of tpiu_next_state, with the lines it logs
CallNextState ==
    /\ ret = << >>
    /\ ret' = << tpiu_next_state(arg.state, arg.byte) >>
    /\ log' = log \o NextStateLog(arg.state, arg.byte, arg.offset)
    /\ UNCHANGED <<valid, state, ndx, frame, nvalid, id, offs, pc, nreads, sink,
                   nulls, nframes, mode, pending, items, built, arg, lastbyte,
                   lastcheck, driven, trace>>

NextNextState == CallNextState

SpecNextState == InitNextState /\ [][NextNextState]_vars

----------------------------------------------------------------------------
(* tpiu_process_frame on its own.                                          *)

\* bound: the number of half-words of a drawn frame with the control bit set
MaxIdChanges == 2

\* the first bytes of the half-words drawn: data, ID 0, ID 1, ID 3
ProcFirstBytes == {16, 1, 3, 7}

\* the final bytes drawn
ProcAuxBytes == {0, 1, 170, 255}

\* the Current Channel IDs drawn
ProcIds == {None, Some(1), Some(3)}

\* the membership table of SpecProcessFrame
ProcValid == {1, 3}

\* a frame whose half-word i starts with firsts[i]; byte 2i + 1 is 64 + i, the
\* final byte is aux
ProcFrameOf(firsts, aux) ==
    [j \in 0..(FRAME_LEN - 1) |->
        [b |-> IF j = FRAME_LEN - 1 THEN aux
               ELSE IF j % 2 = 0 THEN firsts[j \div 2] ELSE 64 + (j \div 2),
         t |-> TimeOf(j + 1), o |-> j + 1]]

ProcFrames ==
    { ProcFrameOf(fs, aux) :
        fs \in { g \in [0..((FRAME_LEN \div 2) - 1) -> ProcFirstBytes] :
                   Cardinality({ i \in DOMAIN g : g[i] # 16 }) <= MaxIdChanges },
        aux \in ProcAuxBytes }

InitProcessFrame ==
    /\ InitLocals
    /\ valid = ProcValid
    /\ mode = "free"
    /\ pending = << >>
    /\ items = 0
    /\ built = << >>
    /\ arg \in { [frame |-> f, id |-> c] :
                  f \in { g \in ProcFrames : tpiu_check_frame(g, ProcValid, TRUE) },
                  c \in ProcIds }
    /\ ret = << >>

\* one call of tpiu_process_frame, the sink failing at one of its calls or not
CallProcessFrame ==
    /\ ret = << >>
    /\ \E failAt \in FailChoices(arg.frame, arg.id) :
          ret' = << tpiu_process_frame(arg.frame, arg.id, failAt) >>
    /\ UNCHANGED <<valid, state, ndx, frame, nvalid, id, offs, pc, nreads, sink,
                   log, nulls, nframes, mode, pending, items, built, arg, lastbyte,
                   lastcheck, driven, trace>>

NextProcessFrame == CallProcessFrame

SpecProcessFrame == InitProcessFrame /\ [][NextProcessFrame]_vars

----------------------------------------------------------------------------
(* The claims.                                                             *)

HasLog(m) == \E i \in 1..Len(log) : log[i].msg = m

\* whether the stream sent so far is the sync pattern and whole frames, all
\* consumed
WholeFrames == mode = "frames" /\ pending = << >> /\ Len(built) >= 1

\* whether no frame sent so far begins with the first byte of the sync pattern
NoSyncLead == \A k \in 1..Len(built) : EncodeFrame(built[k])[1] # SyncAt(0)

\* C1 as stated: after the sync pattern and N well-formed frames whose IDs are
\* all in the membership table, the sink has received exactly the (id, datum)
\* pairs the frames were built from, in order, those under NULL left out.
C1_RoundTrip ==
    (pc = "done" /\ WholeFrames) => SinkPairs = BuiltPairs

\* C1 as amended: the same, for frames none of which begins with the byte 0xFF
\* (an ID change to 0x7F in half-word 0), which the driver takes for the start
\* of a sync pattern.
C1_RoundTripNoSyncLead ==
    (pc = "done" /\ WholeFrames /\ NoSyncLead) => SinkPairs = BuiltPairs

C1_Witness ==
    /\ pc = "done" /\ WholeFrames /\ NoSyncLead
    /\ Len(built) = 2
    /\ nulls > 0
    /\ Len(sink) > FRAME_LEN

\* C2: the data branch of tpiu_process_frame is never reached with the
\* Current Channel ID absent: current.unwrap() never panics.
C2_UnwrapNeverFails == pc # "panic_unwrap"

\* C3: every (state, next-state) pair tpiu_next_state produces is legal, so
\* its panic is unreachable, and so are the unreachable!() arms that follow
\* its call at fill index 0 in tpiu_ingest.
C3_OnlyLegalTransitions == pc \notin {"panic_illegal", "panic_unreachable_arm"}

C3_Witness ==
    /\ pc = "done"
    /\ HasLog("sync found")
    /\ HasLog("derailed")

\* C4: with a source and a sink that never fail, a run over n bytes calls the
\* source n + 1 times, does not abort, and returns success.
C4_RunsToSuccess ==
    (pc \notin {"running", "source_err", "sink_err"})
        => (pc = "done" /\ nreads = offs + 1)

\* C5: the packets delivered to the sink have strictly increasing offsets.
C5_OffsetsIncrease ==
    \A i \in 1..(Len(sink) - 1) : sink[i].packet.offset < sink[i + 1].packet.offset

\* two frames demultiplexed, the first one found by the rescan of a rejected
\* buffer (it starts at the sixth byte of the stream)
C5_Witness ==
    /\ nframes = 2
    /\ Len(log) > 0
    /\ log[1] = [msg |-> "valid frame", n |-> 6]
    /\ Len(sink) > FRAME_LEN

\* C6: the sink is never called with a packet whose channel ID is NULL (0).
C6_NoNullToSink ==
    \A i \in 1..Len(sink) : sink[i].packet.id # TPIU_ID_NULL

C6_Witness ==
    /\ pc = "done"
    /\ nulls >= 4
    /\ Len(sink) > 0

\* C7: a failure of the sink ends the run at once: the failing call is the
\* last call of the sink, and the source is not called after it.
C7_SinkFailureAborts ==
    /\ \A i \in 1..Len(sink) :
          ~sink[i].ok => (i = Len(sink) /\ pc = "sink_err" /\ nreads = sink[i].reads)
    /\ pc = "sink_err" => (Len(sink) > 0 /\ ~sink[Len(sink)].ok)

C7_Witness ==
    /\ pc = "sink_err"
    /\ nframes = 2
    /\ Len(sink) > 2
    /\ sink[Len(sink)].packet.offset < frame[FRAME_LEN - 3].o

\* C8: a failure of the source ends the run at once: the failing call is the
\* last call of the source, no call of the sink follows it, and the bytes in
\* the buffer give no packet.
C8_SourceFailureAborts ==
    pc = "source_err" =>
        /\ nreads = offs + 1
        /\ \A i \in 1..Len(sink) : sink[i].reads < nreads /\ sink[i].ok

C8_Witness ==
    /\ pc = "source_err"
    /\ ndx > 0
    /\ ndx < FRAME_LEN
    /\ Len(sink) > 0

\* C9: the count of the final summary is the number of frames that passed
\* validation and were demultiplexed during the run.
C9_SummaryCountsValidFrames ==
    pc = "done" => log[Len(log)].n = nframes

\* what tpiu_check_frame is claimed to decide
IdOfHalfWord(f, i) == data_or_id(HalfWordFromPair(f[2 * i].b, f[(2 * i) + 1].b))

ControlOfHalfWord(f, i) == f_control(HalfWordFromPair(f[2 * i].b, f[(2 * i) + 1].b))

Acceptable(f, tbl, intermixed) ==
    \A i \in 0..((FRAME_LEN \div 2) - 1) :
        (ControlOfHalfWord(f, i) /\ IdOfHalfWord(f, i) # TPIU_ID_NULL)
            => (IdOfHalfWord(f, i) \in tbl /\ (intermixed \/ i = 0))

\* C10: tpiu_check_frame accepts a frame iff every half-word with the control
\* bit set and an ID other than NULL has its ID in the membership table and,
\* with intermixing disabled, is half-word 0.
C10_CheckFrameIff ==
    ret # << >> => ret[1] = Acceptable(arg.frame, valid, arg.intermixed)

C10_Witness ==
    /\ ret = << FALSE >>
    /\ ~arg.intermixed
    /\ Acceptable(arg.frame, valid, TRUE)
    /\ ControlOfHalfWord(arg.frame, 0)

\* one byte was read and handled by the loop of tpiu_ingest in this step
ByteRead == pc = "running" /\ offs' = offs + 1

\* the entry the loop makes of the byte read in this step
NewEntry == [b |-> lastbyte', t |-> TimeOf(nreads'), o |-> offs']

\* the byte check as the claims state it: bit 0 set and the 7-bit ID b >> 1 in
\* the membership table
PassesByteCheck(b, tbl) == (b % 2 = 1) /\ ((b \div 2) \in tbl)

\* the candidate frame starts of a full buffer f
Candidates(f, tbl) == { c \in 1..(FRAME_LEN - 1) : PassesByteCheck(f[c].b, tbl) }

Lowest(S) == CHOOSE c \in S : \A d \in S : c <= d

\* C11: when a full buffer fails validation in Searching and c is the lowest
\* index in 1..15 whose byte passes the byte check, the buffer afterwards holds
\* the old entries c..15 unchanged at positions 0..15-c with fill index 16-c
\* (no candidate: fill index 0), the state stays Searching, and every byte
\* read after that at a fill index above 0 is appended, so that c new bytes
\* complete the next frame, which starts at the candidate's offset.
C11_ResyncByScan ==
    [][ (ByteRead /\ state.tag = "Searching") =>
          LET f1 == [frame EXCEPT ![FRAME_LEN - 1] = NewEntry]
              C == Candidates(f1, valid)
          IN  /\ (ndx = FRAME_LEN - 1 /\ ~tpiu_check_frame(f1, valid, TRUE)) =>
                    /\ state' = Searching
                    /\ pc' = "running"
                    /\ IF C = { } THEN ndx' = 0
                       ELSE LET c == Lowest(C)
                            IN  /\ ndx' = FRAME_LEN - c
                                /\ \A j \in 0..(FRAME_LEN - 1 - c) :
                                      frame'[j] = f1[j + c]
              /\ (ndx > 0 /\ ndx < FRAME_LEN - 1) =>
                    /\ state' = Searching
                    /\ ndx' = ndx + 1
                    /\ frame' = [frame EXCEPT ![ndx] = NewEntry]
      ]_vars

\* a buffer was rejected and its entries 5..15 were moved to the front
C11_Witness ==
    /\ state.tag = "Searching"
    /\ lastcheck = "invalid"
    /\ ndx = FRAME_LEN - 5
    /\ frame[ndx - 1].o = offs
    /\ frame[FRAME_LEN - 1].o = offs
    /\ frame[0].o = offs - 10

\* C12: in Framing, a full buffer that fails validation moves the driver to
\* Searching only when the immediately preceding completed frame also failed
\* validation; a single invalid frame leaves the state Framing; the
\* consecutive-valid counter and the fill index are reset to 0 in both cases.
C12_SearchingAfterTwoInvalid ==
    [][ LET f1 == [frame EXCEPT ![FRAME_LEN - 1] = NewEntry]
        IN  (/\ ByteRead
             /\ state.tag = "Framing"
             /\ ndx = FRAME_LEN - 1
             /\ ~tpiu_check_frame(f1, valid, TRUE)) =>
                /\ state' = (IF lastcheck = "invalid" THEN Searching ELSE Framing)
                /\ nvalid' = 0
                /\ ndx' = 0
      ]_vars

\* the auxiliary bit the demultiplexer uses for half-word i
AuxBitOf(f, i) == (f[FRAME_LEN - 1].b \div (2 ^ i)) % 2

\* the Current Channel ID before half-word i of the frame f entered with cur:
\* the ID of the last ID change before i, or cur
RECURSIVE CurrentBefore(_, _, _)
CurrentBefore(f, cur, i) ==
    IF i = 0 THEN cur
    ELSE IF ControlOfHalfWord(f, i - 1) THEN Some(IdOfHalfWord(f, i - 1))
    ELSE CurrentBefore(f, cur, i - 1)

\* the (id, datum) pairs of the sink calls made for half-word i of the frame f
SinkPairsOf(calls, f, i) ==
    LET Mine(c) == c.packet.offset \in {f[2 * i].o, f[(2 * i) + 1].o}
        mine == SelectSeq(calls, Mine)
    IN  [k \in 1..Len(mine) |-> << mine[k].packet.id, mine[k].packet.datum >>]

\* what reaches the sink of the packets emitted: those under NULL do not
Filtered(pairs) == SelectSeq(pairs, NotNull)

\* C13: for an ID-change half-word at index i < 7 of a validated frame with
\* new_id = data_or_id: with auxiliary bit i clear exactly one packet
\* {new_id, data_or_aux} is emitted; with the bit set and a Current Channel
\* ID c, exactly one packet {c, data_or_aux}; with the bit set and no Current
\* Channel ID, no packet, and an orphaned byte is recorded.  In all three
\* cases the Current Channel ID afterwards is new_id: the packets of the next
\* half-word that go out under the Current Channel ID carry new_id.
C13_DelayedId ==
    (ret # << >> /\ ret[1].res = "ok") =>
        \A i \in 0..((FRAME_LEN \div 2) - 2) :
            ControlOfHalfWord(arg.frame, i) =>
                LET f == arg.frame
                    new_id == IdOfHalfWord(f, i)
                    d == f[(2 * i) + 1].b
                    cur == CurrentBefore(f, arg.id, i)
                    mine == SinkPairsOf(ret[1].calls, f, i)
                    next == SinkPairsOf(ret[1].calls, f, i + 1)
                    orphaned == \E k \in 1..Len(ret[1].orphans) :
                                   ret[1].orphans[k] = f[(2 * i) + 1].o
                IN  /\ AuxBitOf(f, i) = 0 =>
                        (mine = Filtered(<< << new_id, d >> >>) /\ ~orphaned)
                    /\ (AuxBitOf(f, i) = 1 /\ cur.some) =>
                        (mine = Filtered(<< << cur.v, d >> >>) /\ ~orphaned)
                    /\ (AuxBitOf(f, i) = 1 /\ ~cur.some) =>
                        (mine = << >> /\ orphaned)
                    /\ ~ControlOfHalfWord(f, i + 1) =>
                        /\ \A k \in 1..Len(next) : next[k][1] = new_id
                        /\ new_id # TPIU_ID_NULL => Len(next) >= 1
                        /\ i + 1 = (FRAME_LEN \div 2) - 1 => ret[1].id = new_id
                    /\ (/\ ControlOfHalfWord(f, i + 1)
                        /\ i + 1 < (FRAME_LEN \div 2) - 1
                        /\ AuxBitOf(f, i + 1) = 1) =>
                        next = Filtered(<< << new_id, f[(2 * i) + 3].b >> >>)

\* a frame entered without a Current Channel ID: a delayed ID change at
\* half-word 0 (orphaned), then a delayed ID change re-tagged under it
C13_Witness ==
    /\ ret # << >>
    /\ ret[1].res = "ok"
    /\ ~arg.id.some
    /\ ControlOfHalfWord(arg.frame, 0)
    /\ AuxBitOf(arg.frame, 0) = 1
    /\ Len(ret[1].orphans) = 1
    /\ \E i \in 1..6 :
          /\ ControlOfHalfWord(arg.frame, i)
          /\ AuxBitOf(arg.frame, i) = 1
          /\ IdOfHalfWord(arg.frame, i) # IdOfHalfWord(arg.frame, 0)
          /\ SinkPairsOf(ret[1].calls, arg.frame, i)
                = << << IdOfHalfWord(arg.frame, 0), arg.frame[(2 * i) + 1].b >> >>

\* the last four bytes read are the sync pattern
SyncJustRead ==
    /\ Len(trace) >= Len(TPIU_FRAME_SYNC)
    /\ \A k \in 1..Len(TPIU_FRAME_SYNC) :
          trace[Len(trace) - Len(TPIU_FRAME_SYNC) + k].b = TPIU_FRAME_SYNC[k]

\* the state and fill index the first byte of that pattern was read in
SyncStart == trace[Len(trace) - Len(TPIU_FRAME_SYNC) + 1]

\* C14 as stated: wherever the four bytes FF FF FF 7F occur consecutively in
\* the stream, the state right after the fourth byte is Framing with an empty
\* frame buffer, whatever the state and fill index were before the first.
C14_SyncAnywhere ==
    SyncJustRead => (state = Framing /\ ndx = 0)

\* C14 as amended: the same, for a pattern whose first byte is read in
\* Searching or Framing at fill index 0.
C14_SyncAtFrameStart ==
    (/\ SyncJustRead
     /\ SyncStart.tag \in {"Searching", "Framing"}
     /\ SyncStart.ndx = 0) => (state = Framing /\ ndx = 0)

\* a sync pattern read in Framing, right after the one that led there
C14_Witness ==
    /\ SyncJustRead
    /\ SyncStart.tag = "Framing"
    /\ SyncStart.ndx = 0
    /\ state = Framing
    /\ ndx = 0
    /\ HasLog("sync found")

\* the stream sent is the sync pattern and one frame whose half-word 0 is an
\* ID change to 3 with datum 0x42, not delayed, the other half-words plain
\* data, and the run has ended
C15_Scenario ==
    /\ pc = "done"
    /\ mode = "frames"
    /\ pending = << >>
    /\ Len(built) = 1
    /\ built[1][0] = IdHW(3, 66, 0)
    /\ \A i \in 1..((FRAME_LEN \div 2) - 1) : built[1][i].k = "data"

\* the packets expected of the frame description d: the datum of half-word 0,
\* then the 13 data bytes of half-words 1..7, all under ID 3
C15_Packets(d) ==
    [k \in 1..(FRAME_LEN - 2) |->
        IF k = 1 THEN << 3, d[0].b >>
        ELSE IF k % 2 = 0 THEN << 3, d[k \div 2].a >>
        ELSE << 3, d[(k - 1) \div 2].b >>]

\* C15: with ID 3 in the membership table, FF FF FF 7F and then one frame
\* whose half-word 0 is an ID change to 3 with datum 0x42 and auxiliary bit 0
\* clear, the other half-words plain data, delivers the packet {3, 0x42} and
\* then one packet per remaining data byte, each under ID 3, and the final
\* summary reports 1 valid frame.
C15_EndToEnd ==
    C15_Scenario =>
        /\ 3 \in valid
        /\ SinkPairs = C15_Packets(built[1])
        /\ \A i \in 1..Len(sink) : sink[i].ok
        /\ Len(log) > 0
        /\ log[Len(log)] = [msg |-> "valid TPIU frames", n |-> 1]

C15_Witness ==
    /\ C15_Scenario
    /\ Len(sink) = FRAME_LEN - 2
    /\ sink[1].packet.datum = 66
    /\ sink[Len(sink)].packet.offset = Len(TPIU_FRAME_SYNC) + FRAME_LEN - 1

\* the transition function as the claim states it
SpecifiedNext(s, b) ==
    IF s.tag \in {"SearchingSyncing", "FramingSyncing"}
    THEN IF b # TPIU_FRAME_SYNC[s.next + 1] THEN Searching
         ELSE IF s.next + 1 < 4 THEN [tag |-> s.tag, next |-> s.next + 1]
         ELSE Framing
    ELSE IF b = 255
         THEN (IF s.tag = "Searching" THEN SearchingSyncing(1) ELSE FramingSyncing(1))
         ELSE s

\* C16: tpiu_next_state is the specified transition function: in a Syncing
\* state with k of 1..3, a byte other than sync byte k gives Searching, a
\* matching byte gives the same Syncing variant with k + 1 if k + 1 < 4 and
\* Framing if k + 1 = 4; in Searching (Framing) the byte 0xFF gives
\* SearchingSyncing(1) (FramingSyncing(1)) and any other byte leaves the
\* state unchanged.
C16_NextStateFunction ==
    ret # << >> => ret[1] = SpecifiedNext(arg.state, arg.byte)

\* the fourth byte of the pattern, read in FramingSyncing(3)
C16_Witness ==
    /\ ret = << Framing >>
    /\ arg.state = FramingSyncing(3)
    /\ arg.byte = 127
    /\ log = << >>

\* the byte read in this step only drives the state machine: it is read in a
\* Syncing state, or it is the 0xFF that starts a sync attempt at fill index 0
Driving ==
    /\ ByteRead
    /\ \/ state.tag \in {"SearchingSyncing", "FramingSyncing"}
       \/ (state.tag \in {"Searching", "Framing"} /\ ndx = 0 /\ lastbyte' = 255)

\* C17: a byte read in SearchingSyncing or FramingSyncing (the mismatching
\* byte that aborts the attempt included) and the 0xFF that starts a sync
\* attempt at fill index 0 leave the frame buffer and the fill index
\* unchanged, are never stored, and never give a packet its offset.
C17_SyncBytesNotStored ==
    /\ [][Driving => (frame' = frame /\ ndx' = ndx /\ sink' = sink)]_vars
    /\ [](/\ \A i \in 1..Len(sink) : sink[i].packet.offset \notin driven
          /\ \A j \in 0..(ndx - 1) : frame[j].o \notin driven)

\* packets were delivered, and a sync attempt was aborted by a mismatching
\* byte after that
C17_Witness ==
    /\ Len(sink) > 0
    /\ HasLog("derailed")
    /\ state = Searching
    /\ lastbyte # 255
    /\ offs \in driven
    /\ (offs - 1) \in driven

\* C18: while Searching, frame entry is gated by the byte check (bit 0 set
\* and the ID b >> 1 in the membership table): at fill index 0 a non-sync
\* byte failing the check is discarded with state and buffer unchanged, so
\* whenever the state is Searching and the fill index is above 0 the byte at
\* buffer position 0 passes the byte check, also after a resync shift.  In
\* Framing the first byte is stored without such a check.
C18_ByteCheckGate ==
    /\ [][ (/\ ByteRead
            /\ state.tag = "Searching"
            /\ ndx = 0
            /\ lastbyte' # 255
            /\ ~PassesByteCheck(lastbyte', valid)) =>
                (state' = state /\ frame' = frame /\ ndx' = 0) ]_vars
    /\ [][ (/\ ByteRead
            /\ state.tag = "Framing"
            /\ ndx = 0
            /\ lastbyte' # 255) =>
                (ndx' = 1 /\ frame' = [frame EXCEPT ![0] = NewEntry]) ]_vars
    /\ []((state.tag = "Searching" /\ ndx > 0) =>
              PassesByteCheck(frame[0].b, valid))

\* bytes failing the check were discarded, then one that passes was stored
C18_Witness ==
    /\ state = Searching
    /\ ndx = 1
    /\ frame[0].o = offs
    /\ offs >= 3
    /\ driven = { }
    /\ lastcheck = "none"

\* C19 as stated: in a half-word made of the bytes (first, second), the
\* control bit is the low bit of the second byte, data_or_id is the remaining
\* 7 bits of the second byte, and data_or_aux is the first byte.
C19_LayoutSecondByte ==
    ret # << >> =>
        /\ ret[1].f_control = (arg.v1 % 2 = 1)
        /\ ret[1].data_or_id = arg.v1 \div 2
        /\ ret[1].data_or_aux = arg.v0

\* C19 as amended: the control bit is the low bit of the first byte,
\* data_or_id is the remaining 7 bits of the first byte, and data_or_aux is
\* the second byte.
C19_LayoutFirstByte ==
    ret # << >> =>
        /\ ret[1].f_control = (arg.v0 % 2 = 1)
        /\ ret[1].data_or_id = arg.v0 \div 2
        /\ ret[1].data_or_aux = arg.v1

\* the half-word 07 42: an ID change to 3 with the datum 0x42
C19_Witness ==
    /\ ret # << >>
    /\ arg = [v0 |-> 7, v1 |-> 66]
    /\ ret[1] = [f_control |-> TRUE, data_or_id |-> 3, data_or_aux |-> 66]

\* the frame f with bit i of its final byte changed
FlipAux(f, i) ==
    LET b == f[FRAME_LEN - 1].b
        nb == IF (b \div (2 ^ i)) % 2 = 1 THEN b - (2 ^ i) ELSE b + (2 ^ i)
    IN  [f EXCEPT ![FRAME_LEN - 1].b = nb]

\* C20 as stated: the auxiliary bit vector is the top 7 bits of the frame's
\* final byte; the lowest bit of that byte is not part of it, and changing it
\* alone never changes the packets emitted for the frame.
C20_LowBitUnused ==
    (ret # << >> /\ ret[1].res = "ok") =>
        LET other == tpiu_process_frame(FlipAux(arg.frame, 0), arg.id, 0)
        IN  /\ other.res = "ok"
            /\ other.calls = ret[1].calls
            /\ other.orphans = ret[1].orphans

\* C20 as amended: the auxiliary bit vector is the 8 bits of the frame's
\* final byte, bit i (bit 0 the lowest) for half-word i: the lowest bit is the
\* auxiliary bit of half-word 0; the first datum of a data half-word i has bit
\* i as its low bit, and changing bit i alone changes no packets but those of
\* half-word i.
C20_AuxBitPerHalfWord ==
    (ret # << >> /\ ret[1].res = "ok") =>
        \A i \in 0..((FRAME_LEN \div 2) - 1) :
            LET f == arg.frame
                g == FlipAux(f, i)
                other == tpiu_process_frame(g, arg.id, 0)
                mine == SinkPairsOf(ret[1].calls, f, i)
            IN  /\ other.res = "ok"
                /\ \A j \in 0..((FRAME_LEN \div 2) - 1) :
                      j # i => SinkPairsOf(other.calls, g, j)
                                  = SinkPairsOf(ret[1].calls, f, j)
                /\ (~ControlOfHalfWord(f, i) /\ Len(mine) > 0) =>
                      /\ mine[1][2] % 2 = (f[FRAME_LEN - 1].b \div (2 ^ i)) % 2
                      /\ mine[1][2] # SinkPairsOf(other.calls, g, i)[1][2]

\* a frame whose half-word 0 is data, the lowest bit of the final byte set:
\* the first datum is 0x11
C20_Witness ==
    /\ ret # << >>
    /\ ret[1].res = "ok"
    /\ arg.id = Some(1)
    /\ arg.frame[0].b = 16
    /\ arg.frame[FRAME_LEN - 1].b = 1
    /\ Len(ret[1].calls) = FRAME_LEN - 1
    /\ ret[1].calls[1].packet.datum = 17
    /\ ret[1].calls[3].packet.datum = 16

\* the packets of the sink calls made for half-word i of the frame f
SinkPacketsOf(calls, f, i) ==
    LET Mine(c) == c.packet.offset \in {f[2 * i].o, f[(2 * i) + 1].o}
        mine == SelectSeq(calls, Mine)
    IN  [k \in 1..Len(mine) |-> mine[k].packet]

\* what reaches the sink of the packets emitted: those under NULL do not
Delivered(packets) ==
    LET Keep(p) == p.id # TPIU_ID_NULL
    IN  SelectSeq(packets, Keep)

LastHalfWord == (FRAME_LEN \div 2) - 1

\* C21 as stated: the auxiliary bit of the last half-word (bit 7 of the final
\* byte) is ignored: a frame and the frame that differs from it in that bit
\* only, demultiplexed from the same Current Channel ID, give the same
\* packets and return the same Current Channel ID, whether the last
\* half-word's control bit is set or clear.
C21_LastAuxIgnored ==
    (ret # << >> /\ ret[1].res = "ok") =>
        LET other == tpiu_process_frame(FlipAux(arg.frame, LastHalfWord), arg.id, 0)
        IN  /\ other.res = "ok"
            /\ other.id = ret[1].id
            /\ other.calls = ret[1].calls

\* C21 as amended: the bit is ignored when the last half-word's control bit
\* is set; when it is clear the bit is the low bit of the datum of the packet
\* emitted for frame byte 14, and the two frames differ in that datum only.
C21_LastAuxIgnoredForId ==
    (ret # << >> /\ ret[1].res = "ok") =>
        LET f == arg.frame
            g == FlipAux(f, LastHalfWord)
            other == tpiu_process_frame(g, arg.id, 0)
            mine == SinkPacketsOf(ret[1].calls, f, LastHalfWord)
            theirs == SinkPacketsOf(other.calls, g, LastHalfWord)
        IN  /\ other.res = "ok"
            /\ other.id = ret[1].id
            /\ Len(other.calls) = Len(ret[1].calls)
            /\ ControlOfHalfWord(f, LastHalfWord) => other.calls = ret[1].calls
            /\ ~ControlOfHalfWord(f, LastHalfWord) =>
                  /\ \A k \in 1..Len(mine) :
                        /\ mine[k].datum % 2 = AuxBitOf(f, LastHalfWord)
                        /\ theirs[k] = [mine[k] EXCEPT !.datum =
                                           IF @ % 2 = 1 THEN @ - 1 ELSE @ + 1]
                  /\ \A k \in 1..(Len(ret[1].calls) - Len(mine)) :
                        other.calls[k] = ret[1].calls[k]

\* a frame whose last half-word is data, bit 7 of the final byte set: the
\* datum of frame byte 14 is 0x11
C21_Witness ==
    /\ ret # << >>
    /\ ret[1].res = "ok"
    /\ arg.frame[FRAME_LEN - 2].b = 16
    /\ arg.frame[FRAME_LEN - 1].b = 170
    /\ Len(ret[1].calls) > 0
    /\ ret[1].calls[Len(ret[1].calls)].packet.datum = 17
    /\ ret[1].calls[Len(ret[1].calls)].packet.offset = FRAME_LEN - 1

\* the entry j of the frame f as the packet of datum d under the ID c
PacketAt(f, j, c, d) == Packet(c, d, f[j].t, f[j].o)

\* C22: the last half-word (index 7) of a validated frame: with its control
\* bit set no packet is emitted for it and its ID is returned as the Current
\* Channel ID; with its control bit clear exactly one packet is emitted, for
\* frame byte 14 under the Current Channel ID, and the Current Channel ID is
\* returned unchanged.
C22_LastHalfWord ==
    (ret # << >> /\ ret[1].res = "ok") =>
        LET f == arg.frame
            cur == CurrentBefore(f, arg.id, LastHalfWord)
            mine == SinkPacketsOf(ret[1].calls, f, LastHalfWord)
        IN  IF ControlOfHalfWord(f, LastHalfWord)
            THEN /\ mine = << >>
                 /\ ret[1].id = IdOfHalfWord(f, LastHalfWord)
            ELSE /\ cur.some
                 /\ ret[1].id = cur.v
                 /\ Len(mine) = (IF cur.v = TPIU_ID_NULL THEN 0 ELSE 1)
                 /\ \A k \in 1..Len(mine) :
                       /\ mine[k].id = cur.v
                       /\ mine[k].offset = f[FRAME_LEN - 2].o
                       /\ mine[k].time = f[FRAME_LEN - 2].t

\* a frame whose last half-word announces ID 3 while ID 1 is in force
C22_Witness ==
    /\ ret # << >>
    /\ ret[1].res = "ok"
    /\ arg.id = Some(1)
    /\ arg.frame[FRAME_LEN - 2].b = 7
    /\ ret[1].id = 3
    /\ Len(ret[1].calls) = FRAME_LEN - 2
    /\ \A k \in 1..Len(ret[1].calls) : ret[1].calls[k].packet.id = 1

\* C23: a data half-word at index i < 7 of a validated frame, with Current
\* Channel ID c, emits exactly two packets in order, both under c: the first
\* with datum (data_or_id << 1) | auxiliary bit i and the offset and time of
\* the half-word's first byte, the second with datum data_or_aux and the
\* offset and time of its second byte; the Current Channel ID is unchanged.
C23_DataHalfWord ==
    (ret # << >> /\ ret[1].res = "ok") =>
        \A i \in 0..(LastHalfWord - 1) :
            ~ControlOfHalfWord(arg.frame, i) =>
                LET f == arg.frame
                    cur == CurrentBefore(f, arg.id, i)
                    first == ((f[2 * i].b \div 2) * 2) + AuxBitOf(f, i)
                    next == SinkPacketsOf(ret[1].calls, f, i + 1)
                IN  /\ cur.some
                    /\ SinkPacketsOf(ret[1].calls, f, i)
                          = Delivered(<< PacketAt(f, 2 * i, cur.v, first),
                                         PacketAt(f, (2 * i) + 1, cur.v,
                                                  f[(2 * i) + 1].b) >>)
                    /\ ~ControlOfHalfWord(f, i + 1) =>
                          /\ \A k \in 1..Len(next) : next[k].id = cur.v
                          /\ cur.v # TPIU_ID_NULL => Len(next) >= 1
                          /\ i + 1 = LastHalfWord => ret[1].id = cur.v

\* data half-words under ID 3 with their auxiliary bits set
C23_Witness ==
    /\ ret # << >>
    /\ ret[1].res = "ok"
    /\ arg.id = Some(3)
    /\ arg.frame[FRAME_LEN - 1].b = 255
    /\ \A i \in 0..LastHalfWord : ~ControlOfHalfWord(arg.frame, i)
    /\ Len(ret[1].calls) = FRAME_LEN - 1
    /\ ret[1].calls[1].packet = Packet(3, 17, TimeOf(1), 1)
    /\ ret[1].calls[2].packet = Packet(3, 64, TimeOf(2), 2)

\* C26: the final (16th) byte of a frame never produces a packet: no packet
\* of tpiu_process_frame carries the offset or the time of the frame's 16th
\* byte, whatever the control bit of the last half-word.
C26_FinalByteNoPacket ==
    ret # << >> =>
        \A k \in 1..Len(ret[1].calls) :
            /\ ret[1].calls[k].packet.offset # arg.frame[FRAME_LEN - 1].o
            /\ ret[1].calls[k].packet.time # arg.frame[FRAME_LEN - 1].t

\* the last packet of a frame of data half-words is the one of frame byte 14
C26_Witness ==
    /\ ret # << >>
    /\ ret[1].res = "ok"
    /\ ~ControlOfHalfWord(arg.frame, LastHalfWord)
    /\ Len(ret[1].calls) = FRAME_LEN - 1
    /\ ret[1].calls[Len(ret[1].calls)].packet.offset = arg.frame[FRAME_LEN - 2].o
    /\ arg.frame[FRAME_LEN - 1].b = 0

\* whether half-word i is the last half-word of the frame f with its control
\* bit set
LastControl(f, i) ==
    /\ ControlOfHalfWord(f, i)
    /\ \A j \in (i + 1)..LastHalfWord : ~ControlOfHalfWord(f, j)

\* C24: the Current Channel ID held by tpiu_ingest is absent initially and
\* until a frame has been demultiplexed; once set it never becomes absent
\* again, and it changes only in the step that stores the 16th byte of a frame
\* that passes validation, to the ID of a control-bit half-word of that frame
\* (the last one): not on an invalid frame, a sync derailment or a return to
\* Searching.
C24_IdOnlyFromControlHalfWord ==
    /\ [](nframes = 0 => id = None)
    /\ [][/\ id.some => id'.some
          /\ id' # id =>
                /\ ByteRead
                /\ state.tag \in {"Searching", "Framing"}
                /\ ndx = FRAME_LEN - 1
                /\ frame' = [frame EXCEPT ![ndx] = NewEntry]
                /\ Acceptable(frame', valid, TRUE)
                /\ nframes' = nframes + 1
                /\ id'.some
                /\ \E i \in 0..LastHalfWord :
                      LastControl(frame', i) /\ IdOfHalfWord(frame', i) = id'.v
          /\ (state'.tag = "Searching" /\ state.tag # "Searching") => id' = id
          /\ lastcheck' = "invalid" => id' = id]_vars

\* the ID set by a frame is still held in Searching after a derailed sync
C24_Witness ==
    /\ id = Some(1)
    /\ state = Searching
    /\ nframes = 1
    /\ HasLog("derailed")

\* C25: the frame buffer never holds more than 16 entries: the fill index is
\* in 0..15 whenever a byte is read and no access is out of bounds; a byte
\* read at a fill index below 15 changes at most its own position of the
\* buffer and causes no validation, rescan or sink call; a frame is
\* demultiplexed only in the step that stores the 16th byte, and only if the
\* buffer then passes the frame check; the entries move only in the step that
\* stores the 16th byte of a buffer that fails it.
C25_BufferInspectedWhenFull ==
    /\ []((pc = "running" => ndx \in 0..(FRAME_LEN - 1)) /\ pc # "panic_index")
    /\ [][/\ (ByteRead /\ ndx < FRAME_LEN - 1) =>
                /\ frame' \in {frame, [frame EXCEPT ![ndx] = NewEntry]}
                /\ ndx' \in {ndx, ndx + 1}
                /\ lastcheck' = lastcheck
                /\ nframes' = nframes
                /\ sink' = sink
          /\ (nframes' # nframes \/ sink' # sink) =>
                /\ ByteRead
                /\ ndx = FRAME_LEN - 1
                /\ frame' = [frame EXCEPT ![ndx] = NewEntry]
                /\ Acceptable(frame', valid, TRUE)
                /\ lastcheck' = "valid"
                /\ nframes' = nframes + 1
          /\ (ByteRead /\ frame' \notin {frame, [frame EXCEPT ![ndx] = NewEntry]}) =>
                /\ ndx = FRAME_LEN - 1
                /\ ~Acceptable([frame EXCEPT ![ndx] = NewEntry], valid, TRUE)
                /\ lastcheck' = "invalid"
                /\ ndx' \in 1..(FRAME_LEN - 1)]_vars

\* a rescan has kept the tail of a buffer that failed the frame check
C25_Witness ==
    /\ pc = "running"
    /\ state = Searching
    /\ lastcheck = "invalid"
    /\ ndx \in 1..(FRAME_LEN - 1)
    /\ frame[0].o = (offs - ndx) + 1
    /\ offs = FRAME_LEN

\* C27: every packet delivered to the sink has a channel ID that is non-zero,
\* at most 127, and true in the membership table, the packets re-tagged
\* under the previous ID by a delayed ID change and the data packets under an
\* ID carried over from an earlier frame included.
C27_SinkIdsValid ==
    \A k \in 1..Len(sink) :
        /\ sink[k].packet.id # TPIU_ID_NULL
        /\ sink[k].packet.id \in 1..127
        /\ sink[k].packet.id \in valid

\* a second frame opens with a delayed change to ID 1: its byte 68 went out
\* under ID 3, carried over from the first frame, and later data under ID 1
C27_Witness ==
    /\ mode = "free"
    /\ nframes = 2
    /\ \E k \in 1..Len(sink) :
          sink[k].packet = Packet(3, 68, TimeOf(FRAME_LEN + 2), FRAME_LEN + 2)
    /\ \E k \in 1..Len(sink) :
          sink[k].packet.id = 1 /\ sink[k].packet.offset > FRAME_LEN + 2

\* C28: whenever the state is SearchingSyncing(k) or FramingSyncing(k) the
\* fill index is 0 and 1 <= k <= 3; and the fill index is 0 right after every
\* byte that was read during a sync attempt or started one, so also when
\* Framing is entered by a completed sync pattern and when Searching is
\* re-entered by an aborted one.
C28_SyncingAtIndexZero ==
    /\ state.tag \in {"SearchingSyncing", "FramingSyncing"} =>
          (ndx = 0 /\ state.next \in 1..(Len(TPIU_FRAME_SYNC) - 1))
    /\ (pc = "running" /\ offs \in driven) => ndx = 0

\* an attempt begun in Framing was aborted: Searching is re-entered empty
C28_Witness ==
    /\ pc = "running"
    /\ state = Searching
    /\ ndx = 0
    /\ offs \in driven
    /\ nframes = 1
    /\ HasLog("derailed")

\* the offset of the last source byte the sink has received a packet of
LastSinkOffset == IF sink = << >> THEN 0 ELSE sink[Len(sink)].packet.offset

\* C29: each source byte contributes to at most one delivered packet (the
\* offsets of the sink's packets increase strictly, and every byte waiting
\* in a partly filled buffer, retained by a resync shift or not, lies after
\* the last one delivered); each validated frame is demultiplexed exactly once, in the
\* step that stores its 16th byte, its packets being of its own bytes; a
\* buffer that failed validation is never demultiplexed.
C29_EachByteOnce ==
    /\ [](/\ \A k \in 1..(Len(sink) - 1) :
                sink[k].packet.offset < sink[k + 1].packet.offset
          /\ pc = "running" =>
                \A j \in 0..(ndx - 1) : frame[j].o > LastSinkOffset)
    /\ [][LET f1 == [frame EXCEPT ![ndx] = NewEntry]
              full == ByteRead /\ state.tag \in {"Searching", "Framing"}
                        /\ ndx = FRAME_LEN - 1
          IN  /\ (full /\ Acceptable(f1, valid, TRUE)) =>
                    /\ nframes' = nframes + 1
                    /\ Len(sink') - Len(sink) <= FRAME_LEN - 1
                    /\ \A k \in (Len(sink) + 1)..Len(sink') :
                          \E j \in 0..(FRAME_LEN - 2) :
                              sink'[k].packet.offset = f1[j].o
              /\ ~(full /\ Acceptable(f1, valid, TRUE)) =>
                    (nframes' = nframes /\ sink' = sink)]_vars

\* the bytes a resync shift retained went out once, in the frame they
\* completed with the bytes that followed
C29_Witness ==
    /\ nframes = 1
    /\ lastcheck = "valid"
    /\ frame[0].o = 6
    /\ ndx = 0
    /\ state = Framing
    /\ \E k \in 1..Len(sink) : sink[k].packet = Packet(3, 18, TimeOf(7), 7)

\* whether bytes are waiting when the source is asked again: a partly filled
\* buffer, or a sync attempt in progress
BytesWaiting ==
    \/ ndx \in 1..(FRAME_LEN - 1)
    \/ state.tag \in {"SearchingSyncing", "FramingSyncing"}

\* the step in which readnext returns without a byte and without an error
EndReported ==
    /\ pc = "running"
    /\ nreads' = nreads + 1
    /\ offs' = offs
    /\ pc' # "source_err"

\* C30: when the source reports end of stream while the buffer holds between
\* 1 and 15 bytes, or while a sync attempt is in progress, those bytes are
\* dropped: tpiu_ingest makes no further sink call, validates nothing,
\* counts no frame and returns success; nothing is delivered afterwards.
C30_EndDropsPartial ==
    /\ [](pc = "done" => \A j \in 0..(ndx - 1) : frame[j].o > LastSinkOffset)
    /\ [][/\ (EndReported /\ BytesWaiting) =>
                /\ pc' = "done"
                /\ sink' = sink
                /\ nulls' = nulls
                /\ nframes' = nframes
                /\ lastcheck' = lastcheck
                /\ <<frame, ndx, state, id>>' = <<frame, ndx, state, id>>
          /\ pc = "done" => (pc' = "done" /\ sink' = sink)]_vars

\* the stream ended one byte into the frame after a demultiplexed one
C30_Witness ==
    /\ pc = "done"
    /\ nframes = 1
    /\ state = Framing
    /\ ndx = 1
    /\ frame[0].o = FRAME_LEN + 1
    /\ Len(sink) > 0
    /\ LastSinkOffset < FRAME_LEN

====
